---- MODULE Spec2Model ----
(***************************************************************************)
(* BuildingEnv10Floors (src/new1.py): the reset/step environment that      *)
(* builds a 10-storey lumped-mass chain in the OpenSees solver, runs a     *)
(* transient analysis over a ground-motion record, reduces the floor       *)
(* displacements to a drift metric and appends the peaks to per-floor      *)
(* log files.                                                              *)
(*                                                                         *)
(* Numbers.  Python floats are modelled by integers.  Displacements are    *)
(* counted in a unit in which every solver displacement is a multiple of   *)
(* StoryHeight, so that the division by the story height is exact, and     *)
(* drifts are counted in the unit in which code_drift (1/100) is 1.  The   *)
(* two conversions the code applies to these numbers, the float32 cast of  *)
(* the observation and the "%.6e" formatting of the log lines, keep their  *)
(* widths: 24 significant bits and 7 significant decimal digits.           *)
(*                                                                         *)
(* Solver.  openseespy is an external library with one process-wide        *)
(* domain.  It is modelled as the record `ops`: what the calls of the      *)
(* code put into the domain, the committed time, and the committed         *)
(* displacement and velocity of every node, with the solver's own history  *)
(* since the last wipe: the status of every analyze call, the floor        *)
(* displacements of every committed step and the number of nodeDisp        *)
(* reads.  analyze is a deterministic                                      *)
(* function of that record (a lumped-mass chain advanced by one explicit   *)
(* step); it reports failure when the excitation sample of the step is     *)
(* not a number.                                                           *)
(***************************************************************************)
EXTENDS Integers, Sequences, FiniteSets, TLC

VARIABLES acc_data, num_steps, episode_count, model_built, last_alphavalue,
          ops, dirExists, files, ret, lastRun,
          kept, stepLog, rebuildLog, initFiles

vars == <<acc_data, num_steps, episode_count, model_built, last_alphavalue,
          ops, dirExists, files, ret, lastRun,
          kept, stepLog, rebuildLog, initFiles>>

----------------------------------------------------------------------------
(* Program constants *)

floor_num == 10
StoryHeight == 3
code_drift == 1
RebuildPeriod == 10

(* Bounds of the model *)

MaxEpisodes == 2
MaxCadenceEpisodes == 21
MaxRepeatEpisodes == 1
MaxInitLines == 1

----------------------------------------------------------------------------
(* Numbers *)

Abs(x) == IF x < 0 THEN -x ELSE x

\* F(e), with e evaluated once (a local variable of the code)
With(e, F(_)) == CHOOSE r \in {F(x) : x \in {e}} : TRUE

RECURSIVE Pow(_, _)
Pow(b, e) == IF e = 0 THEN 1 ELSE b * Pow(b, e - 1)

\* x / q rounded to the nearest integer, ties to even (x >= 0, q > 0)
RoundHalfEven(x, q) ==
  LET m == x \div q
      r == x % q
  IN  IF 2 * r > q \/ (2 * r = q /\ m % 2 = 1) THEN m + 1 ELSE m

\* the least e >= 0 with x < base^(digits + e)   (x >= 0)
RECURSIVE Excess(_, _, _, _)
Excess(x, base, digits, e) ==
  IF x \div Pow(base, e) < Pow(base, digits) THEN e
  ELSE Excess(x, base, digits, e + 1)

\* np.float32(x): round to 24 significant bits
Float32(x) ==
  LET a == Abs(x)
      e == Excess(a, 2, 24, 0)
      m == RoundHalfEven(a, Pow(2, e)) * Pow(2, e)
  IN  IF x < 0 THEN -m ELSE m

\* the number of decimal digits of x (x >= 1)
RECURSIVE NumDigits(_)
NumDigits(x) == IF x < 10 THEN 1 ELSE 1 + NumDigits(x \div 10)

\* f"{x:.6e}": sign, a seven-digit mantissa d.dddddd and a decimal exponent
Format6e(x) ==
  LET a == Abs(x)
  IN  IF a = 0 THEN [neg |-> FALSE, mant |-> 0, exp |-> 0]
      ELSE LET n == NumDigits(a)
               m == IF n <= 7 THEN a * Pow(10, 7 - n)
                    ELSE RoundHalfEven(a, Pow(10, n - 7))
           IN  IF m = Pow(10, 7)
               THEN [neg |-> x < 0, mant |-> Pow(10, 6), exp |-> n]
               ELSE [neg |-> x < 0, mant |-> m, exp |-> n - 1]

----------------------------------------------------------------------------
(* Ground-motion records: np.loadtxt gives a flat sequence of samples; a   *)
(* sample is a number or nan.                                              *)

Fin(x) == [nan |-> FALSE, val |-> x]
NaN == [nan |-> TRUE, val |-> 0]

\* a sample whose drift metric needs more than 24 bits and 7 digits
BigSample == Pow(2, 24) + 2

QuietRecord == <<Fin(0), Fin(0)>>

\* a record with a reversal, and the records on which a step fails
SwingRecord == <<Fin(1), Fin(-3)>>

FailingRecords == { <<NaN, Fin(1)>>, <<Fin(1), NaN, Fin(1)>> }

Records ==
  { QuietRecord, SwingRecord, <<Fin(1), Fin(0)>>, <<Fin(BigSample), Fin(0)>> }
  \cup FailingRecords

----------------------------------------------------------------------------
(* The solver's domain *)

NodeTags == 1 .. (floor_num + 1)

EmptyOps ==
  [ ndm      |-> 0,
    nodes    |-> {},
    fixed    |-> {},
    mass     |-> {},
    mats     |-> {},
    elems    |-> {},
    series   |-> <<>>,
    pattern  |-> FALSE,
    rayleigh |-> FALSE,
    analysis |-> FALSE,
    time     |-> 0,
    u        |-> [n \in NodeTags |-> 0],
    v        |-> [n \in NodeTags |-> 0],
    status   |-> <<>>,
    disps    |-> <<>>,
    nReads   |-> 0 ]

\* a wipe that leaves the domain as it is
OpsWipeKeep(o) == o

OpsWipe(o) == EmptyOps

OpsModel(o) == [o EXCEPT !.ndm = 1]

OpsNode(o, tag) ==
  IF tag \in o.nodes THEN o ELSE [o EXCEPT !.nodes = @ \cup {tag}]

OpsFix(o, tag) == [o EXCEPT !.fixed = @ \cup {tag}]

OpsMass(o, tag) == [o EXCEPT !.mass = @ \cup {tag}]

OpsUniaxialMaterial(o, matTag) == [o EXCEPT !.mats = @ \cup {matTag}]

\* element('twoNodeLink', tag, iNode, jNode, ...): a tag already in the
\* domain is not replaced
OpsElement(o, tag, iNode, jNode) ==
  IF \E e \in o.elems : e.tag = tag THEN o
  ELSE [o EXCEPT !.elems = @ \cup {[tag |-> tag, iNode |-> iNode, jNode |-> jNode]}]

OpsTimeSeries(o, values) == [o EXCEPT !.series = values]

OpsPattern(o) == [o EXCEPT !.pattern = TRUE]

OpsRayleigh(o) == [o EXCEPT !.rayleigh = TRUE]

OpsAnalysis(o) == [o EXCEPT !.analysis = TRUE]

\* the Path series at step t: its sample, and zero past its end
SeriesAt(o, t) ==
  IF o.pattern /\ t <= Len(o.series) THEN o.series[t] ELSE Fin(0)

\* the number of links joining nodes m and n
Links(es, m, n) ==
  Cardinality({e \in es : \/ (e.iNode = m /\ e.jNode = n)
                          \/ (e.iNode = n /\ e.jNode = m)})

\* the spring force on node n (every link of this program joins two
\* consecutive nodes)
SumForce(es, u, n) ==
  (IF n > 1 THEN Links(es, n - 1, n) * (u[n - 1] - u[n]) ELSE 0)
  + (IF n < floor_num + 1 THEN Links(es, n, n + 1) * (u[n + 1] - u[n]) ELSE 0)

\* f itself, tabulated (the identity on functions whose domain holds 1)
Tabulated(f) == [f EXCEPT ![1] = f[1]]

OpsFree(o, n) == n \in o.nodes /\ n \notin o.fixed /\ n \in o.mass

\* commit a converged step: time, velocities nv, displacements, history
OpsCommit(o, t, nv) ==
  [ok |-> 0,
   ops |-> [o EXCEPT !.time = t,
                     !.u = Tabulated([n \in NodeTags |->
                                 IF OpsFree(o, n) THEN o.u[n] + nv[n] ELSE o.u[n]]),
                     !.v = nv,
                     !.status = Append(@, 0),
                     !.disps = Append(@, Tabulated([i \in 1 .. floor_num |->
                                 IF OpsFree(o, i + 1) THEN o.u[i + 1] + nv[i + 1]
                                 ELSE o.u[i + 1]]))]]

\* one step under the excitation sample a
OpsAdvance(o, t, a) ==
  IF a.nan \/ ~o.analysis
  THEN [ok |-> -3, ops |-> [o EXCEPT !.status = Append(@, -3)]]
  ELSE With(Tabulated([n \in NodeTags |->
                 IF OpsFree(o, n)
                 THEN o.v[n] + SumForce(o.elems, o.u, n) - StoryHeight * a.val
                 ELSE 0]),
            LAMBDA nv : OpsCommit(o, t, nv))

\* analyze(1, dt): one step of the chain; a nan sample fails the step and
\* commits nothing.  Returns the status and the domain after the call.
OpsAnalyze(o) == OpsAdvance(o, o.time + 1, SeriesAt(o, o.time + 1))

OpsNodeDisp(o, nd) == o.u[nd]

----------------------------------------------------------------------------
(* run_opensees_analysis *)

\* for i in range(floor_num + 1): node(i + 1, ...)
RECURSIVE NodeLoop(_, _)
NodeLoop(o, i) ==
  IF i >= floor_num + 1 THEN o
  ELSE NodeLoop(OpsNode(o, i + 1), i + 1)

\* for nd in range(2, floor_num + 2): mass(nd, ...)
RECURSIVE MassLoop(_, _)
MassLoop(o, nd) ==
  IF nd >= floor_num + 2 THEN o
  ELSE MassLoop(OpsMass(o, nd), nd + 1)

\* for i in range(1, floor_num): element(elementTag, i + 1, i + 2); elementTag += 1
\* Returns the domain and the next free element tag.
RECURSIVE LinkLoop(_, _, _)
LinkLoop(o, elementTag, i) ==
  IF i >= floor_num THEN [ops |-> o, elementTag |-> elementTag]
  ELSE LinkLoop(OpsElement(o, elementTag, i + 1, i + 2), elementTag + 1, i + 1)

\* the range test with the top floor let in, and with the floor below it
\* shut out
DamperInRangeInclusive(damper_floor) == 1 <= damper_floor /\ damper_floor <= floor_num

DamperInRangeShort(damper_floor) == 1 <= damper_floor /\ damper_floor < floor_num - 1

\* if 1 <= damper_floor < self.floor_num
DamperInRange(damper_floor) == 1 <= damper_floor /\ damper_floor < floor_num

\* the damper link, with the tag the chain loop left free
AddDamper(l, damper_floor) ==
  IF DamperInRange(damper_floor)
  THEN OpsElement(l.ops, l.elementTag, damper_floor, damper_floor + 1)
  ELSE l.ops

\* steps 1) and 2) of run_opensees_analysis: wipe, nodes, fixity, masses,
\* material, the chain of links and the damper link
BuildStructure(o0, damper_floor) ==
  AddDamper(
    LinkLoop(
      OpsUniaxialMaterial(MassLoop(OpsFix(NodeLoop(OpsModel(OpsWipe(o0)), 0), 1), 2), 1),
      1, 1),
    damper_floor)

\* steps 3) to 5): the record as uniform excitation, damping, analysis options
ConfigureAnalysis(o, acc) ==
  OpsAnalysis(OpsRayleigh(OpsPattern(OpsTimeSeries(o, acc))))

\* the update that lets a later displacement of equal magnitude win
PeakUpdateLast(d, cur) == IF Abs(d) >= Abs(cur) THEN d ELSE cur

\* if abs(d) > abs(max_disps[index]): max_disps[index] = d
PeakUpdate(d, cur) == IF Abs(d) > Abs(cur) THEN d ELSE cur

\* d = ops.nodeDisp(nd, 1), folded into max_disps[nd - 2]
RecordNode(rec, nd) ==
  [ops       |-> [rec.ops EXCEPT !.nReads = @ + 1],
   max_disps |-> [rec.max_disps EXCEPT
                    ![nd - 1] = PeakUpdate(OpsNodeDisp(rec.ops, nd), @)]]

\* for nd in range(2, floor_num + 2): the reads of one completed step
RECURSIVE RecordLoop(_, _)
RecordLoop(rec, nd) ==
  IF nd >= floor_num + 2 THEN rec
  ELSE With(RecordNode(rec, nd), LAMBDA next : RecordLoop(next, nd + 1))

\* the loop without its break
StopNever(ok) == FALSE

\* if ok != 0: break
StopOnStatus(ok) == ok # 0

\* for step in range(num_steps): analyze one step, stop on a non-zero
\* status, else fold the floor displacements into max_disps
RECURSIVE StepLoop(_, _, _)
StepLoop(state, step, nsteps) ==
  IF step >= nsteps THEN state
  ELSE With(OpsAnalyze(state.ops), LAMBDA r :
         IF StopOnStatus(r.ok)
         THEN [ops |-> r.ops, max_disps |-> state.max_disps]
         ELSE With(RecordLoop([ops |-> r.ops, max_disps |-> state.max_disps], 2),
                   LAMBDA rec : StepLoop(rec, step + 1, nsteps)))

\* if drift > max_story_drift: max_story_drift = drift
DriftMax(drift, max_story_drift) ==
  IF drift > max_story_drift THEN drift ELSE max_story_drift

RECURSIVE DriftLoop(_, _, _)
DriftLoop(max_disps, i, max_story_drift) ==
  IF i >= floor_num - 1 THEN max_story_drift
  ELSE DriftLoop(max_disps, i + 1,
                 DriftMax(Abs(max_disps[i + 2] - max_disps[i + 1]) \div StoryHeight,
                          max_story_drift))

\* alphavalue = abs(max_story_drift - self.code_drift)
AlphaValue(max_story_drift) == Abs(max_story_drift - code_drift)

\* steps 6) to 8) and the return; besides the two returned values the
\* record carries the domain handed to the first analyze call and the
\* domain left behind
Analyse(damper_floor, built, nsteps) ==
  With(StepLoop([ops |-> built, max_disps |-> [i \in 1 .. floor_num |-> 0]], 0, nsteps),
       LAMBDA loop :
         With(DriftLoop(loop.max_disps, 0, 0), LAMBDA msd :
           [ damper_floor    |-> damper_floor,
             alphavalue      |-> AlphaValue(msd),
             max_disps       |-> loop.max_disps,
             max_story_drift |-> msd,
             built           |-> built,
             ops             |-> loop.ops ]))

\* The whole method
RunOpenseesAnalysis(o0, damper_floor, acc, nsteps) ==
  With(ConfigureAnalysis(BuildStructure(o0, damper_floor), acc),
       LAMBDA built : Analyse(damper_floor, built, nsteps))

----------------------------------------------------------------------------
(* The environment *)

Actions == 0 .. (floor_num - 1)

\* damper floors a direct caller of run_opensees_analysis may pass
DamperArgs == 0 .. (floor_num + 1)

Floors == 1 .. floor_num

ZeroDisps == [i \in Floors |-> 0]

\* the last invocation of run_opensees_analysis: its argument, what it
\* returned, the domain it handed to its first analyze call, the floor
\* displacements of the steps it completed, and whether step made the call
NoRun ==
  [ damper_floor |-> -1, alphavalue |-> 0, max_disps |-> ZeroDisps,
    max_story_drift |-> 0, built |-> EmptyOps, disps |-> <<>>,
    viaStep |-> FALSE ]

RunInfo(r, viaStep) ==
  [ damper_floor |-> r.damper_floor, alphavalue |-> r.alphavalue,
    max_disps |-> r.max_disps, max_story_drift |-> r.max_story_drift,
    built |-> r.built, disps |-> r.ops.disps, viaStep |-> viaStep ]

NoKept == [damper_floor |-> -1, alphavalue |-> 0, max_disps |-> ZeroDisps]

\* what the last call of step returned, (next_state, reward, done), with
\* the number of returned calls and, as they were at the return, the
\* alphavalue and drift of its analysis and the stored last_alphavalue
Returned(calls, next_state, reward, done, alphavalue, max_story_drift, stored) ==
  [ calls |-> calls, next_state |-> next_state, reward |-> reward, done |-> done,
    alphavalue |-> alphavalue, max_story_drift |-> max_story_drift,
    stored |-> stored ]

\* a line left in a log file by an earlier run of the program
OldLine(i, j) == Format6e(StoryHeight * (i + j))

InitFrom(records) ==
  /\ acc_data \in records
  /\ num_steps = Len(acc_data)
  /\ episode_count = 0
  /\ model_built = FALSE
  /\ last_alphavalue = 0
  /\ ops = EmptyOps
  /\ dirExists \in BOOLEAN
  /\ \E n \in 0 .. MaxInitLines :
       /\ (~dirExists => n = 0)
       /\ files = [i \in Floors |-> [j \in 1 .. n |-> OldLine(i, j)]]
  /\ initFiles = files
  /\ ret = Returned(0, 0, 0, FALSE, 0, 0, 0)
  /\ lastRun = NoRun
  /\ kept = NoKept
  /\ stepLog = <<>>
  /\ rebuildLog = {}

Init == InitFrom(Records)

\* open(filename, "w"): the file is truncated before the write
OpenTruncate(file, line) == <<line>>

\* with open(filename, "a") as f: f.write(line)
OpenAppend(file, line) == Append(file, line)

\* _save_floor_disps: one formatted line per floor file
SaveFloorDisps(fs, max_disps) ==
  [i \in Floors |-> OpenAppend(fs[i], Format6e(max_disps[i]))]

\* build_model: wipe the solver, set the flag
BuildModel(o) == OpsWipe(o)

\* the test against 0 instead of 1
RebuildDueOnTens(count) == (count % RebuildPeriod) = 0

\* if (self.episode_count % 10) == 1
RebuildDue(count) == (count % RebuildPeriod) = 1

\* the reward without its sign
RewardUnsigned(alphavalue) == alphavalue

\* reward = -alphavalue
Reward(alphavalue) == -alphavalue

\* next_state = np.array([alphavalue], dtype=np.float32)
NextState(alphavalue) == Float32(alphavalue)

\* an episode that is never over
DoneNever == FALSE

\* done = True
StepDone == TRUE

\* self.last_alphavalue = 0.0
ResetAlpha(alphavalue) == 0

\* reset()
Reset ==
  /\ last_alphavalue' = ResetAlpha(last_alphavalue)
  /\ UNCHANGED <<acc_data, num_steps, episode_count, model_built, ops,
                 dirExists, files, ret, lastRun, kept, stepLog, rebuildLog,
                 initFiles>>

\* step(action), for at most `limit` episodes
Step(action, limit) ==
  /\ episode_count < limit
  /\ \E rebuild \in {RebuildDue(episode_count + 1)} :
     \E run \in {RunOpenseesAnalysis(IF rebuild THEN BuildModel(ops) ELSE ops,
                                      action + 1, acc_data, num_steps)} :
         /\ episode_count' = episode_count + 1
         /\ model_built' = (rebuild \/ model_built)
         /\ rebuildLog' = IF rebuild THEN rebuildLog \cup {Len(stepLog) + 1}
                          ELSE rebuildLog
         /\ ops' = run.ops
         /\ last_alphavalue' = run.alphavalue
         /\ dirExists' = TRUE
         /\ files' = SaveFloorDisps(files, run.max_disps)
         /\ ret' = Returned(ret.calls + 1, NextState(run.alphavalue),
                            Reward(run.alphavalue), StepDone,
                            run.alphavalue, run.max_story_drift, last_alphavalue')
         /\ lastRun' = RunInfo(run, TRUE)
         /\ stepLog' = Append(stepLog, run.max_disps)
  /\ UNCHANGED <<acc_data, num_steps, kept, initFiles>>

\* build_model() called on its own
BuildModelCall ==
  /\ ops' = BuildModel(ops)
  /\ model_built' = TRUE
  /\ UNCHANGED <<acc_data, num_steps, episode_count, last_alphavalue,
                 dirExists, files, ret, lastRun, kept, stepLog, rebuildLog,
                 initFiles>>

\* run_opensees_analysis(damper_floor) called on its own; the caller may
\* hold on to the returned pair (keeps = {TRUE}), drop it ({FALSE}) or either
RunCall(damper_floor, keeps) ==
  /\ \E run \in {RunOpenseesAnalysis(ops, damper_floor, acc_data, num_steps)} :
     \E keep \in keeps :
         /\ ops' = run.ops
         /\ lastRun' = RunInfo(run, FALSE)
         /\ kept' = IF keep
                    THEN [damper_floor |-> damper_floor,
                          alphavalue |-> run.alphavalue,
                          max_disps |-> run.max_disps]
                    ELSE kept
  /\ UNCHANGED <<acc_data, num_steps, episode_count, model_built,
                 last_alphavalue, dirExists, files, ret, stepLog, rebuildLog,
                 initFiles>>

StepEpisode == \E action \in Actions : Step(action, MaxEpisodes)

RunAnalysisCall == \E d \in DamperArgs : RunCall(d, {FALSE})

Next == Reset \/ StepEpisode \/ BuildModelCall \/ RunAnalysisCall

Spec == Init /\ [][Next]_vars

\* reset and step alone, on the quiet record, over more than two rebuild periods
InitCadence == InitFrom({QuietRecord})

StepCadence == \E action \in Actions : Step(action, MaxCadenceEpisodes)

NextCadence == Reset \/ StepCadence

SpecCadence == InitCadence /\ [][NextCadence]_vars

\* a caller that keeps the pair one analysis returned and compares later ones
StepRepeat == \E action \in Actions : Step(action, MaxRepeatEpisodes)

RunAndCompare == \E d \in DamperArgs : RunCall(d, BOOLEAN)

NextRepeat == Reset \/ StepRepeat \/ BuildModelCall \/ RunAndCompare

InitRepeat == InitFrom({SwingRecord} \cup FailingRecords) /\ ~dirExists

SpecRepeat == InitRepeat /\ [][NextRepeat]_vars

----------------------------------------------------------------------------
(* Reference notions the properties are stated with *)

MaxOf(S) == CHOOSE m \in S : \A x \in S : x <= m

Ran(run) == run.damper_floor # -1

\* the link elements of a domain that join nodes m and n, in either order
Joining(o, m, n) ==
  {e \in o.elems : (e.iNode = m /\ e.jNode = n) \/ (e.iNode = n /\ e.jNode = m)}

\* the always-present links carry the tags 1 .. floor_num - 1, the damper
\* link the next one
ChainElems(o) == {e \in o.elems : e.tag < floor_num}

DamperElems(o) == {e \in o.elems : e.tag >= floor_num}

\* the peak magnitude of floor i over the completed steps of a run
PeakMagnitude(run, i) ==
  MaxOf({0} \cup {Abs(run.disps[t][i]) : t \in 1 .. Len(run.disps)})

\* the displacement of floor i at the first completed step that attains
\* the peak magnitude (0 when every displacement was 0)
FirstPeak(run, i) ==
  IF PeakMagnitude(run, i) = 0 THEN 0
  ELSE LET first == CHOOSE t \in 1 .. Len(run.disps) :
                      /\ Abs(run.disps[t][i]) = PeakMagnitude(run, i)
                      /\ \A q \in 1 .. (t - 1) :
                           Abs(run.disps[q][i]) < PeakMagnitude(run, i)
       IN  run.disps[first][i]

\* the largest drift ratio between consecutive entries of a vector
DriftOf(d) ==
  MaxOf({Abs(d[i + 1] - d[i]) \div StoryHeight : i \in 1 .. (floor_num - 1)})

\* the model a wiped solver holds once damper floor d and the record are
\* built into it and nothing else
FreshlyBuilt(o, d, acc) ==
  /\ o.ndm = 1
  /\ o.nodes = 1 .. (floor_num + 1)
  /\ o.fixed = {1}
  /\ o.mass = 2 .. (floor_num + 1)
  /\ o.mats = {1}
  /\ o.elems =
       {[tag |-> i, iNode |-> i + 1, jNode |-> i + 2] : i \in 1 .. (floor_num - 1)}
       \cup (IF d \in 1 .. (floor_num - 1)
             THEN {[tag |-> floor_num, iNode |-> d, jNode |-> d + 1]}
             ELSE {})
  /\ o.series = acc
  /\ o.pattern /\ o.rayleigh /\ o.analysis
  /\ o.time = 0
  /\ o.status = <<>>
  /\ o.disps = <<>>
  /\ o.nReads = 0
  /\ \A n \in NodeTags : o.u[n] = 0 /\ o.v[n] = 0

\* the steps at which the analyze calls since the last wipe failed
FailedSteps == {k \in 0 .. (Len(ops.status) - 1) : ops.status[k + 1] # 0}

----------------------------------------------------------------------------
(* Properties *)

\* C1: build_model runs during the k-th call of step exactly when
\* k mod 10 = 1, and the counter counts the calls of step and nothing else
\* (reset neither changes it nor moves a rebuild).
C1_RebuildCadence ==
  /\ episode_count = Len(stepLog)
  /\ rebuildLog = {k \in 1 .. Len(stepLog) : k % 10 = 1}

C1_Witness ==
  /\ Len(stepLog) = 21
  /\ rebuildLog = {1, 11, 21}
  /\ last_alphavalue = 0

\* C2: with floor_num = 10 the model built for damper floor 10 holds exactly
\* 9 link elements, and the model built for a damper floor in 1..9 holds
\* exactly 10, with 10 distinct tags.
C2_LinkCount ==
  Ran(lastRun) =>
    /\ lastRun.damper_floor = 10 => Cardinality(lastRun.built.elems) = 9
    /\ lastRun.damper_floor \in 1 .. 9 =>
         /\ Cardinality(lastRun.built.elems) = 10
         /\ Cardinality({e.tag : e \in lastRun.built.elems}) = 10

C2_Witness ==
  /\ lastRun.viaStep
  /\ lastRun.damper_floor = 10
  /\ Cardinality(lastRun.built.elems) = 9
  /\ Cardinality(ops.elems) = 9

\* C3: when analyze fails at step k the loop stops at once: that call is the
\* last analyze call, the displacements of step k are not read, max_disps is
\* what the analysis of the first k samples alone gives (all zeros for
\* k = 0), and a step that made the call still returns: its reward is
\* computed from that partial data and its log lines are written.
C3_StopOnFailure ==
  \A k \in FailedSteps :
    /\ k < num_steps
    /\ Len(ops.status) = k + 1
    /\ ops.nReads = floor_num * k
    /\ Len(ops.disps) = k
    /\ Ran(lastRun)
    /\ lastRun.disps = ops.disps
    /\ lastRun.max_disps =
         RunOpenseesAnalysis(EmptyOps, lastRun.damper_floor,
                             SubSeq(acc_data, 1, k), k).max_disps
    /\ (k = 0 => lastRun.max_disps = ZeroDisps)
    /\ lastRun.alphavalue = Abs(DriftOf(lastRun.max_disps) - code_drift)
    /\ lastRun.viaStep =>
         /\ ret.calls = Len(stepLog)
         /\ ret.done
         /\ ret.reward = -Abs(DriftOf(lastRun.max_disps) - code_drift)
         /\ \A i \in Floors :
              files[i][Len(files[i])] = Format6e(lastRun.max_disps[i])

C3_Witness ==
  /\ num_steps = 3
  /\ FailedSteps = {1}
  /\ lastRun.viaStep
  /\ lastRun.damper_floor = 1
  /\ lastRun.max_disps # ZeroDisps
  /\ ret.calls = 2

\* C4: every call of step appends exactly one line to each of the 10 floor
\* files and changes no earlier line: after n calls a file holds its
\* initial lines and then, in episode order, the formatted floor entry of
\* the max_disps of each step.
C4_AppendOnly ==
  /\ Len(stepLog) = ret.calls
  /\ \A i \in Floors :
       files[i] = initFiles[i] \o [j \in 1 .. Len(stepLog) |-> Format6e(stepLog[j][i])]

C4_Witness ==
  /\ Len(stepLog) = 2
  /\ Len(initFiles[1]) = 1
  /\ Len(files[1]) = 3
  /\ files[1][2] # files[1][3]

\* C5: an invocation of run_opensees_analysis returns the pair an earlier
\* invocation with the same damper floor returned, whatever was called in
\* between, and the domain it hands to its first analyze call is the one
\* built from the damper floor and the record alone.
C5_Deterministic ==
  Ran(lastRun) =>
    /\ FreshlyBuilt(lastRun.built, lastRun.damper_floor, acc_data)
    /\ kept.damper_floor = lastRun.damper_floor =>
         /\ kept.alphavalue = lastRun.alphavalue
         /\ kept.max_disps = lastRun.max_disps

C5_Witness ==
  /\ kept.damper_floor = 1
  /\ lastRun.damper_floor = 1
  /\ lastRun.viaStep
  /\ lastRun.max_disps # ZeroDisps
  /\ FailedSteps # {}

\* C6, as claimed: the reward is -alphavalue with alphavalue =
\* |max_story_drift - code_drift|, so it is <= 0 and is 0 exactly when the
\* drift equals code_drift; the returned next_state and the stored
\* last_alphavalue both equal that alphavalue.
C6_Original ==
  ret.calls > 0 =>
    /\ ret.alphavalue = Abs(ret.max_story_drift - code_drift)
    /\ ret.reward = -ret.alphavalue
    /\ ret.reward <= 0
    /\ (ret.reward = 0 <=> ret.max_story_drift = code_drift)
    /\ ret.stored = ret.alphavalue
    /\ ret.next_state = ret.alphavalue

\* C6, amended: as claimed for the reward and the stored last_alphavalue;
\* the returned next_state is that alphavalue rounded to single precision:
\* equal to it when 24 bits hold it, within 2^-24 of it relatively otherwise.
C6_RewardAmended ==
  ret.calls > 0 =>
    /\ ret.alphavalue = Abs(ret.max_story_drift - code_drift)
    /\ ret.reward = -ret.alphavalue
    /\ ret.reward <= 0
    /\ (ret.reward = 0 <=> ret.max_story_drift = code_drift)
    /\ ret.stored = ret.alphavalue
    /\ (ret.alphavalue < Pow(2, 24) => ret.next_state = ret.alphavalue)
    /\ Abs(ret.next_state - ret.alphavalue) * Pow(2, 24) <= ret.alphavalue
    /\ ret.next_state % 2 = 0 \/ ret.next_state < Pow(2, 24)

C6_Witness ==
  /\ ret.calls > 0
  /\ ret.reward < 0
  /\ ret.stored = -ret.reward
  /\ ret.next_state # ret.alphavalue

\* C7: step returns done = true after every call, whatever the action, the
\* prior state and the outcome of the analysis.
C7_AlwaysDone == ret.calls > 0 => ret.done = TRUE

C7_Witness ==
  /\ ret.calls = 2
  /\ ret.done
  /\ lastRun.viaStep
  /\ FailedSteps = {0}

\* C8, as claimed: a damper floor outside 1..8 (9 and 10 among them) gives
\* a model with no damper element.
C8_Original ==
  (Ran(lastRun) /\ lastRun.damper_floor \notin 1 .. (floor_num - 2)) =>
    DamperElems(lastRun.built) = {}

\* C8, amended: the damper floor is constrained to [1, floor_count), that
\* is 1..9: such a floor d gives exactly one damper element, between nodes
\* d and d+1, and every floor outside 1..9 gives none.
C8_DamperRangeAmended ==
  Ran(lastRun) =>
    /\ Cardinality(ChainElems(lastRun.built)) = floor_num - 1
    /\ lastRun.damper_floor \in 1 .. (floor_num - 1) =>
         /\ Cardinality(DamperElems(lastRun.built)) = 1
         /\ \A e \in DamperElems(lastRun.built) :
              e.iNode = lastRun.damper_floor /\ e.jNode = lastRun.damper_floor + 1
    /\ lastRun.damper_floor \notin 1 .. (floor_num - 1) =>
         DamperElems(lastRun.built) = {}

C8_Witness ==
  /\ lastRun.damper_floor = 9
  /\ Cardinality(DamperElems(lastRun.built)) = 1
  /\ lastRun.viaStep

\* C9: the always-present links join nodes i and i+1 for i = 1..9, so the
\* fixed node 1 is linked to node 2 in every build, and the damper link of
\* floor d in 1..9 lies beside an always-present link between d and d+1.
C9_ChainFromGround ==
  Ran(lastRun) =>
    /\ \A i \in 1 .. (floor_num - 1) :
         Joining(lastRun.built, i, i + 1) \cap ChainElems(lastRun.built) # {}
    /\ \A e \in DamperElems(lastRun.built) :
         Joining(lastRun.built, e.iNode, e.jNode) \cap ChainElems(lastRun.built) # {}

\* C10, as claimed: every entry of max_disps is the largest absolute
\* displacement of its floor over the completed steps, hence >= 0, and the
\* drift is the largest |max_disps[i+1] - max_disps[i]| / 3 of these.
C10_Original ==
  Ran(lastRun) =>
    /\ DOMAIN lastRun.max_disps = 1 .. 10
    /\ \A i \in Floors :
         /\ lastRun.max_disps[i] = PeakMagnitude(lastRun, i)
         /\ lastRun.max_disps[i] >= 0
    /\ lastRun.max_story_drift = DriftOf(lastRun.max_disps)

\* C10, amended: max_disps has 10 entries; entry i is the signed
\* displacement floor i had at the first completed step where its
\* magnitude peaked (0 when no step completed), so its absolute value is
\* the largest absolute displacement while the entry itself may be
\* negative; the drift is the largest |max_disps[i+1] - max_disps[i]| / 3
\* of these signed entries.
C10_SignedPeaksAmended ==
  Ran(lastRun) =>
    /\ DOMAIN lastRun.max_disps = 1 .. 10
    /\ \A i \in Floors :
         /\ Abs(lastRun.max_disps[i]) = PeakMagnitude(lastRun, i)
         /\ lastRun.max_disps[i] = FirstPeak(lastRun, i)
    /\ lastRun.max_story_drift = DriftOf(lastRun.max_disps)

C10_Witness ==
  /\ Ran(lastRun)
  /\ Len(lastRun.disps) = 2
  /\ lastRun.max_disps[1] > 0
  /\ lastRun.max_disps[2] < 0
  /\ lastRun.max_story_drift # DriftOf([i \in Floors |-> Abs(lastRun.max_disps[i])])

====
